---- MODULE Spec2Model ----
(***************************************************************************)
(* Model of src/src/transactions.rs: the anchoring transaction builder,    *)
(* the payload codec, the transaction classifier, the signing wrappers and *)
(* the finalizer, and the broadcast through the RPC collaborator.          *)
(*                                                                         *)
(* A u64 is kept at its full width as four 16-bit limbs, least significant *)
(* limb first.  A script is its byte sequence; a hash is a byte sequence.  *)
(***************************************************************************)
EXTENDS Integers, Sequences, FiniteSets, TLC

VARIABLES
    debug_assertions, \* build profile: TRUE = overflow checks on (debug)
    builder,          \* the TransactionBuilder in hand, or NoBuilder
    tx,               \* the AnchoringTx in hand, or NoTx
    finalized,        \* how many times the AnchoringTx in hand was finalized
    signature,        \* the BitcoinSignature in hand, or NoSignature
    outcome,          \* how the last operation ended
    sent,             \* the transactions handed to client.send_transaction
    last              \* the last operation and its arguments (history)

vars == <<debug_assertions, builder, tx, finalized, signature, outcome, sent,
          last>>

----------------------------------------------------------------------------
(* Bounds of the model *)

MaxInputs == 2      \* longest input list the builder accumulates
MaxFinalize == 2    \* finalize calls on one AnchoringTx value
MaxOutputs == 2     \* outputs of a transaction given to the classifier

----------------------------------------------------------------------------
(* Bytes and 64-bit unsigned integers *)

LimbBase == 65536
ByteBase == 256
U64Limbs == 4
U64Bytes == 8

Rep(b, n) == [i \in 1..n |-> b]

Slice(s, from, to) == [i \in 1..(to - from) |-> s[from + i]]
    \* Rust s[from..to] with 0-based bounds, as a 1-based sequence

U64(l3, l2, l1, l0) == <<l0, l1, l2, l3>>

U64Zero == U64(0, 0, 0, 0)
U64Max == U64(65535, 65535, 65535, 65535)

RECURSIVE AddLimbs(_, _, _, _)
AddLimbs(a, b, i, carry) ==
    IF i > U64Limbs THEN [limbs |-> <<>>, carry |-> carry]
    ELSE LET s == a[i] + b[i] + carry
             rest == AddLimbs(a, b, i + 1, s \div LimbBase)
         IN  [limbs |-> <<s % LimbBase>> \o rest.limbs, carry |-> rest.carry]

\* a + b on u64: the wrapped sum and whether it overflowed
U64Add(a, b) ==
    LET r == AddLimbs(a, b, 1, 0)
    IN  [val |-> r.limbs, overflow |-> r.carry > 0]

RECURSIVE SubLimbs(_, _, _, _)
SubLimbs(a, b, i, borrow) ==
    IF i > U64Limbs THEN [limbs |-> <<>>, borrow |-> borrow]
    ELSE LET d == a[i] - b[i] - borrow
             rest == SubLimbs(a, b, i + 1, IF d < 0 THEN 1 ELSE 0)
         IN  [limbs |-> <<d % LimbBase>> \o rest.limbs, borrow |-> rest.borrow]

\* a - b on u64: the wrapped difference and whether it underflowed
U64Sub(a, b) ==
    LET r == SubLimbs(a, b, 1, 0)
    IN  [val |-> r.limbs, overflow |-> r.borrow > 0]

U64Gt(a, b) == U64Sub(b, a).overflow

\* mutant of write_u64: the bytes in big-endian order
write_u64_big_endian(v) ==
    [k \in 1..U64Bytes |->
        LET limb == v[U64Limbs - ((k - 1) \div 2)]
        IN  IF (k - 1) % 2 = 0 THEN limb \div ByteBase ELSE limb % ByteBase]

\* LittleEndian::write_u64: the 8-byte buffer of a u64
write_u64(v) ==
    [k \in 1..U64Bytes |->
        LET limb == v[((k - 1) \div 2) + 1]
        IN  IF (k - 1) % 2 = 0 THEN limb % ByteBase ELSE limb \div ByteBase]

\* LittleEndian::read_u64 of an 8-byte slice
read_u64(bytes) ==
    [i \in 1..U64Limbs |-> bytes[2 * i - 1] + ByteBase * bytes[2 * i]]

----------------------------------------------------------------------------
(* Scripts: bitcoin::blockdata::script as the source uses it *)

OP_PUSHBYTES_0 == 0
OP_PUSHBYTES_75 == 75
OP_PUSHDATA1 == 76
OP_PUSHDATA2 == 77
OP_PUSHDATA4 == 78
OP_RETURN == 106
OP_EQUAL == 135
OP_HASH160 == 169

\* Script::new() and Builder::new()
EmptyScript == <<>>

\* Builder::push_opcode
push_opcode(script, op) == Append(script, op)

\* Builder::push_slice: the shortest push of the data
push_slice(script, data) ==
    LET n == Len(data)
    IN  IF n < OP_PUSHDATA1 THEN script \o <<n>> \o data
        ELSE IF n < ByteBase THEN script \o <<OP_PUSHDATA1, n>> \o data
        ELSE script \o <<OP_PUSHDATA2, n % ByteBase, n \div ByteBase>> \o data

\* An instruction of a script: a data push, an opcode, or a parse error
PushBytes(bytes) == [ins |-> "PushBytes", bytes |-> bytes]
Op(code) == [ins |-> "Op", code |-> code]
InsError == [ins |-> "Error"]

\* script.into_iter(): the instructions of the bytes from 0-based position
\* pos on; the iteration ends at the first instruction that cannot be read
RECURSIVE InstructionsFrom(_, _)
InstructionsFrom(script, pos) ==
    IF pos >= Len(script) THEN <<>>
    ELSE LET code == script[pos + 1]
             left == Len(script) - pos - 1
         IN  IF code <= OP_PUSHBYTES_75
             THEN IF left < code THEN <<InsError>>
                  ELSE <<PushBytes(Slice(script, pos + 1, pos + 1 + code))>>
                       \o InstructionsFrom(script, pos + 1 + code)
             ELSE IF code = OP_PUSHDATA1
             THEN IF left < 1 \/ left - 1 < script[pos + 2] THEN <<InsError>>
                  ELSE LET n == script[pos + 2]
                       IN  <<PushBytes(Slice(script, pos + 2, pos + 2 + n))>>
                           \o InstructionsFrom(script, pos + 2 + n)
             ELSE IF code = OP_PUSHDATA2
             THEN IF left < 2
                     \/ left - 2 < script[pos + 2] + ByteBase * script[pos + 3]
                  THEN <<InsError>>
                  ELSE LET n == script[pos + 2] + ByteBase * script[pos + 3]
                       IN  <<PushBytes(Slice(script, pos + 3, pos + 3 + n))>>
                           \o InstructionsFrom(script, pos + 3 + n)
             ELSE IF code = OP_PUSHDATA4
             THEN <<InsError>>  \* no script of the model is 2^16 bytes long
             ELSE <<Op(code)>> \o InstructionsFrom(script, pos + 1)

Instructions(script) == InstructionsFrom(script, 0)

\* the data of the PushBytes instructions, in order (the filter_map of the source)
RECURSIVE Pushes(_)
Pushes(ins) ==
    IF ins = <<>> THEN <<>>
    ELSE (IF Head(ins).ins = "PushBytes" THEN <<Head(ins).bytes>> ELSE <<>>)
         \o Pushes(Tail(ins))

P2shLen == 23
Hash160Len == 20

\* Script::is_p2sh
is_p2sh(script) ==
    /\ Len(script) = P2shLen
    /\ script[1] = OP_HASH160
    /\ script[2] = Hash160Len
    /\ script[P2shLen] = OP_EQUAL

\* Address::script_pubkey of a script-hash address
script_pubkey(addr) ==
    push_opcode(push_slice(push_opcode(EmptyScript, OP_HASH160), addr.hash), OP_EQUAL)

----------------------------------------------------------------------------
(* The transaction data model *)

None == [some |-> FALSE]
Some(v) == [some |-> TRUE, val |-> v]

NoBuilder == [live |-> FALSE]
NoTx == [held |-> FALSE]

\* AnchoringTx(pub RawBitcoinTx): the public tuple constructor; no check is made
AnchoringTx(raw) == [held |-> TRUE, raw |-> raw]

\* a u32 too wide for one machine integer of the checker: two 16-bit halves
U32(hi, lo) == <<lo, hi>>
SequenceFinal == U32(65535, 65535)     \* 0xFFFFFFFF

TxIn(prev_hash, prev_index, script_sig, sequence) ==
    [prev_hash |-> prev_hash, prev_index |-> prev_index,
     script_sig |-> script_sig, sequence |-> sequence]

TxOut(value, script) == [value |-> value, script_pubkey |-> script]

RawBitcoinTx(version, lock_time, input, output) ==
    [version |-> version, lock_time |-> lock_time,
     input |-> input, output |-> output, witness |-> <<>>]

ANCHORING_TX_FUNDS_OUTPUT == 0
ANCHORING_TX_DATA_OUTPUT == 1

PayloadLen == 42
PayloadVersion == 1
PayloadDataLen == 40
HashLen == 32

\* the 42-byte payload buffer of create_anchoring_transaction
PayloadData(block_height, block_hash) ==
    <<PayloadVersion, PayloadDataLen>> \o write_u64(block_height) \o block_hash

\* the metadata script of create_anchoring_transaction
MetadataScript(block_height, block_hash) ==
    push_slice(push_opcode(EmptyScript, OP_RETURN),
               PayloadData(block_height, block_hash))

\* mutant of find_payload: the version byte is not looked at
find_payload_any_version(raw) ==
    IF Len(raw.output) <= ANCHORING_TX_DATA_OUTPUT THEN None
    ELSE LET pushes == Pushes(Instructions(
                           raw.output[ANCHORING_TX_DATA_OUTPUT + 1].script_pubkey))
         IN  IF pushes = <<>> THEN None
             ELSE LET bytes == pushes[1]
                  IN  IF Len(bytes) = PayloadLen
                      THEN Some(<<read_u64(Slice(bytes, 2, 10)),
                                  Slice(bytes, 10, PayloadLen)>>)
                      ELSE None

\* find_payload: Some(<<height, hash>>) or None
find_payload(raw) ==
    IF Len(raw.output) <= ANCHORING_TX_DATA_OUTPUT THEN None
    ELSE LET pushes == Pushes(Instructions(
                           raw.output[ANCHORING_TX_DATA_OUTPUT + 1].script_pubkey))
         IN  IF pushes = <<>> THEN None
             ELSE LET bytes == pushes[1]
                  IN  IF Len(bytes) = PayloadLen /\ bytes[1] = PayloadVersion
                      THEN Some(<<read_u64(Slice(bytes, 2, 10)),
                                  Slice(bytes, 10, PayloadLen)>>)
                      ELSE None

\* mutant of TxKindFrom: the script-hash scan comes before the payload check
TxKindFrom_funding_first(raw) ==
    IF \E i \in 1..Len(raw.output) :
          /\ U64Gt(raw.output[i].value, U64Zero)
          /\ is_p2sh(raw.output[i].script_pubkey)
    THEN [kind |-> "FundingTx", tx |-> [held |-> TRUE, raw |-> raw]]
    ELSE IF find_payload(raw).some
         THEN [kind |-> "Anchoring", tx |-> [held |-> TRUE, raw |-> raw]]
         ELSE [kind |-> "Other", tx |-> [held |-> TRUE, raw |-> raw]]

\* impl From<RawBitcoinTx> for TxKind
TxKindFrom(raw) ==
    IF find_payload(raw).some
    THEN [kind |-> "Anchoring", tx |-> AnchoringTx(raw)]
    ELSE IF \E i \in 1..Len(raw.output) :
                /\ U64Gt(raw.output[i].value, U64Zero)
                /\ is_p2sh(raw.output[i].script_pubkey)
         THEN [kind |-> "FundingTx", tx |-> [held |-> TRUE, raw |-> raw]]
         ELSE [kind |-> "Other", tx |-> [held |-> TRUE, raw |-> raw]]

----------------------------------------------------------------------------
(* Values the operations are applied to *)

Address(hash) == [hash |-> hash]
AddrA == Address(Rep(191, Hash160Len))
AddrB == Address(Rep(17, Hash160Len))
Addresses == {AddrA, AddrB}

HashA == Rep(22, HashLen)
HashB == [i \in 1..HashLen |-> i]
Hashes == {HashA, HashB}

Heights == {U64(0, 0, 0, 10), U64(258, 772, 1286, 1800), U64Max}

Sat3000 == U64(0, 0, 0, 3000)
Sat4000 == U64(0, 0, 0, 4000)
Sat1000 == U64(0, 0, 0, 1000)
Sat8000 == U64(0, 0, 0, 8000)
Fees == {U64Zero, Sat1000, Sat8000}

P2pkh(hash) == <<118, 169, Hash160Len>> \o hash \o <<136, 172>>

SignedScriptSig == push_slice(push_slice(push_opcode(EmptyScript, OP_PUSHBYTES_0),
                                         Rep(48, 9)), Rep(83, 5))

\* an earlier anchoring transaction, already signed (the prev_tx of the tests)
PrevAnchoringTx ==
    RawBitcoinTx(1, 0,
        <<TxIn(Rep(73, HashLen), 0, SignedScriptSig, SequenceFinal)>>,
        <<TxOut(Sat3000, script_pubkey(AddrA)),
          TxOut(U64Zero, MetadataScript(U64Zero, HashA))>>)

\* a funding transaction (the funding_tx of the tests)
FundingRawTx ==
    RawBitcoinTx(1, 0,
        <<TxIn(Rep(149, HashLen), 0, Rep(71, 3), U32(65535, 65534))>>,
        <<TxOut(Sat4000, script_pubkey(AddrA)),
          TxOut(U64(0, 0, 1535, 57622), P2pkh(Rep(2, Hash160Len)))>>)

\* an ordinary payment (the transaction of test_tx_kind_other)
OtherRawTx ==
    RawBitcoinTx(1, 0,
        <<TxIn(Rep(206, HashLen), 1, Rep(71, 3), U32(65535, 65534))>>,
        <<TxOut(U64(0, 0, 3064, 42646), P2pkh(Rep(181, Hash160Len))),
          TxOut(U64(0, 0, 1, 34464), P2pkh(Rep(245, Hash160Len)))>>)

\* a transaction whose first output carries the largest u64 value
RichRawTx ==
    RawBitcoinTx(1, 0,
        <<TxIn(Rep(5, HashLen), 0, EmptyScript, SequenceFinal)>>,
        <<TxOut(U64Max, script_pubkey(AddrB))>>)

SourceTxs == <<PrevAnchoringTx, FundingRawTx, RichRawTx, OtherRawTx>>

\* BitcoinHash::bitcoin_hash: the transaction id, one-to-one on the
\* transactions the builder is given
bitcoin_hash(raw) ==
    LET i == CHOOSE k \in 1..Len(SourceTxs) : SourceTxs[k] = raw
    IN  Rep(16 * i + i, HashLen)

\* the (transaction, output index) references offered to the builder; the
\* last one names an output that FundingRawTx does not have
InputRefs == {<<PrevAnchoringTx, 0>>, <<FundingRawTx, 0>>,
              <<RichRawTx, 0>>, <<FundingRawTx, 2>>}

----------------------------------------------------------------------------
(* The builder *)

\* create_anchoring_transaction
create_anchoring_transaction(addr, block_height, block_hash, inputs, out_funds) ==
    LET ins == [i \in 1..Len(inputs) |->
                   TxIn(bitcoin_hash(inputs[i][1]), inputs[i][2],
                        EmptyScript, SequenceFinal)]
        outputs == <<TxOut(out_funds, script_pubkey(addr)),
                     TxOut(U64Zero, MetadataScript(block_height, block_hash))>>
    IN  AnchoringTx(RawBitcoinTx(1, 0, ins, outputs))

Ok(v) == [status |-> "ok", val |-> v]
Panic(msg) == [status |-> "panic", msg |-> msg]

\* the sum of into_transaction, element by element: tx.output[out as usize]
\* panics on a missing output; an overflowing addition panics when overflow
\* checks are on and wraps when they are off
RECURSIVE total_funds(_, _, _, _)
total_funds(inputs, i, acc, checks) ==
    IF i > Len(inputs) THEN Ok(acc)
    ELSE LET raw == inputs[i][1]
             out == inputs[i][2]
         IN  IF out >= Len(raw.output) THEN Panic("index out of bounds")
             ELSE LET s == U64Add(acc, raw.output[out + 1].value)
                  IN  IF s.overflow /\ checks
                      THEN Panic("attempt to add with overflow")
                      ELSE total_funds(inputs, i + 1, s.val, checks)

\* mutant of into_transaction: the fee is not subtracted
into_transaction_fee_ignored(b, checks) ==
    LET total == total_funds(b.inputs, 1, U64Zero, checks)
    IN  IF total.status = "panic" THEN total
        ELSE IF ~b.output.some THEN Panic("Output address is not set")
        ELSE IF ~b.fee.some THEN Panic("Fee is not set")
        ELSE IF ~b.payload.some
             THEN Panic("called Option::unwrap on a None value")
        ELSE Ok(create_anchoring_transaction(
                    b.output.val, b.payload.val[1], b.payload.val[2],
                    b.inputs, total.val))

\* mutant of into_transaction: an unset fee counts as a fee of zero
into_transaction_default_fee(b, checks) ==
    LET total == total_funds(b.inputs, 1, U64Zero, checks)
        fee_or_zero == IF b.fee.some THEN b.fee.val ELSE U64Zero
    IN  IF total.status = "panic" THEN total
        ELSE IF ~b.output.some THEN Panic("Output address is not set")
        ELSE IF ~b.payload.some
             THEN Panic("called Option::unwrap on a None value")
        ELSE LET d == U64Sub(total.val, fee_or_zero)
             IN  IF d.overflow /\ checks
                 THEN Panic("attempt to subtract with overflow")
                 ELSE Ok(create_anchoring_transaction(
                             b.output.val, b.payload.val[1], b.payload.val[2],
                             b.inputs, d.val))

\* TransactionBuilder::into_transaction: the AnchoringTx or the panic
into_transaction(b, checks) ==
    LET total == total_funds(b.inputs, 1, U64Zero, checks)
    IN  IF total.status = "panic" THEN total
        ELSE IF ~b.output.some THEN Panic("Output address is not set")
        ELSE IF ~b.fee.some THEN Panic("Fee is not set")
        ELSE IF ~b.payload.some
             THEN Panic("called Option::unwrap on a None value")
        ELSE LET d == U64Sub(total.val, b.fee.val)
             IN  IF d.overflow /\ checks
                 THEN Panic("attempt to subtract with overflow")
                 ELSE Ok(create_anchoring_transaction(
                             b.output.val, b.payload.val[1], b.payload.val[2],
                             b.inputs, d.val))

----------------------------------------------------------------------------
(* Finalization *)

\* the scriptSig of finalize_anchoring_transaction for one input
RECURSIVE push_signatures(_, _)
push_signatures(script, signatures) ==
    IF signatures = <<>> THEN script
    ELSE push_signatures(push_slice(script, Head(signatures)), Tail(signatures))

\* mutant of script_sig_of: the zero placeholder is left out
script_sig_of_no_placeholder(signatures, redeem_script_bytes) ==
    push_slice(push_signatures(EmptyScript, signatures), redeem_script_bytes)

script_sig_of(signatures, redeem_script_bytes) ==
    push_slice(push_signatures(push_opcode(EmptyScript, OP_PUSHBYTES_0), signatures),
               redeem_script_bytes)

\* mutant of finalize_anchoring_transaction: the inputs without signatures
\* are dropped from the transaction
finalize_anchoring_transaction_signed_only(anchoring_tx, redeem_script, signatures) ==
    LET n == Len(anchoring_tx.raw.input)
        signed == [i \in 1..n |->
                      [anchoring_tx.raw.input[i] EXCEPT !.script_sig =
                          IF (i - 1) \in DOMAIN signatures
                          THEN script_sig_of(signatures[i - 1], redeem_script)
                          ELSE @]]
    IN  IF \E out \in DOMAIN signatures : out >= n
        THEN Panic("index out of bounds")
        ELSE Ok([anchoring_tx EXCEPT !.raw.input =
                    SelectSeq(signed, LAMBDA txin : txin.script_sig # <<>>)])

\* finalize_anchoring_transaction: signatures is the HashMap, a function
\* from input indices to signature lists; input[out as usize] panics on an
\* index the transaction does not have
finalize_anchoring_transaction(anchoring_tx, redeem_script, signatures) ==
    LET n == Len(anchoring_tx.raw.input)
    IN  IF \E out \in DOMAIN signatures : out >= n
        THEN Panic("index out of bounds")
        ELSE Ok([anchoring_tx EXCEPT !.raw.input =
                    [i \in 1..n |->
                        IF (i - 1) \in DOMAIN signatures
                        THEN [anchoring_tx.raw.input[i] EXCEPT !.script_sig =
                                 script_sig_of(signatures[i - 1], redeem_script)]
                        ELSE anchoring_tx.raw.input[i]]])

\* mutant of finalize: the unlocking scripts are reset before they are filled
finalize_resetting(anchoring_tx, redeem_script, signatures) ==
    finalize_anchoring_transaction(
        [anchoring_tx EXCEPT !.raw.input =
            [i \in 1..Len(anchoring_tx.raw.input) |->
                [anchoring_tx.raw.input[i] EXCEPT !.script_sig = EmptyScript]]],
        redeem_script, signatures)

\* AnchoringTx::finalize
finalize(anchoring_tx, redeem_script, signatures) ==
    finalize_anchoring_transaction(anchoring_tx, redeem_script, signatures)

\* an Err of a Result
Err(e) == [status |-> "err", err |-> e]

\* the answers of the RPC collaborator to one send_transaction call
Clients ==
    {[accepts |-> TRUE, error |-> "none"],
     [accepts |-> FALSE, error |-> "rpc: transaction rejected"],
     [accepts |-> FALSE, error |-> "rpc: connection refused"]}

\* client.send_transaction(raw): Ok on acceptance, the collaborator's error
\* otherwise
send_transaction(client, raw) ==
    IF client.accepts THEN Ok(TRUE) ELSE Err(client.error)

\* mutant of send: the transaction is handed over before it is finalized
send_before_finalize(anchoring_tx, client, redeem_script, signatures) ==
    LET s == send_transaction(client, anchoring_tx.raw)
        r == finalize(anchoring_tx, redeem_script, signatures)
    IN  [result |-> IF s.status = "ok" THEN r ELSE s,
         calls |-> <<anchoring_tx.raw>>]

\* AnchoringTx::send: the result, and the transactions handed to the
\* collaborator on the way.  finalize(..)? returns early on Err (finalize
\* never returns one) and a panic of finalize unwinds before the call of
\* the collaborator; tx.clone().into() is the RawBitcoinTx inside the
\* AnchoringTx.
send(anchoring_tx, client, redeem_script, signatures) ==
    LET r == finalize(anchoring_tx, redeem_script, signatures)
    IN  IF r.status # "ok"
        THEN [result |-> r, calls |-> <<>>]
        ELSE LET s == send_transaction(client, r.val.raw)
             IN  [result |-> IF s.status = "ok" THEN Ok(r.val) ELSE s,
                  calls |-> <<r.val.raw>>]

\* AnchoringTx::payload
payload_of(anchoring_tx) ==
    LET p == find_payload(anchoring_tx.raw)
    IN  IF p.some THEN Ok(p.val) ELSE Panic("Unable to find payload")

\* AnchoringTx::amount
amount(anchoring_tx) == anchoring_tx.raw.output[ANCHORING_TX_FUNDS_OUTPUT + 1].value

\* AnchoringTx::prev_hash
prev_hash(anchoring_tx) == anchoring_tx.raw.input[1].prev_hash

\* serialized redeem scripts (2-of-2 and 2-of-3 over 33-byte keys); the
\* second is long enough to need OP_PUSHDATA1
PubKeyLen == 33
RedeemA == <<82, PubKeyLen>> \o Rep(3, PubKeyLen) \o <<PubKeyLen>> \o Rep(2, PubKeyLen)
           \o <<82, 174>>
RedeemB == <<82, PubKeyLen>> \o Rep(3, PubKeyLen) \o <<PubKeyLen>> \o Rep(2, PubKeyLen)
           \o <<PubKeyLen>> \o Rep(4, PubKeyLen) \o <<83, 174>>
RedeemScripts == {RedeemA, RedeemB}

\* signature bytes handed to the finalizer, which does not look inside them
SigX == <<48, 6, 2, 1, 7, 2, 1, 9, 1>>
SigY == <<48, 6, 2, 1, 5, 2, 1, 3, 1>>

\* the signature mappings (HashMap<u32, Vec<BitcoinSignature>>) offered to
\* the finalizer; the last one names an input no built transaction has
SignatureMaps ==
    { <<>>,
      [k \in {0} |-> <<SigX, SigY>>],
      [k \in {1} |-> <<SigY>>],
      [k \in {0, 1} |-> IF k = 0 THEN <<SigY, SigX>> ELSE <<SigX, SigY>>],
      [k \in {MaxInputs} |-> <<SigX>>] }

----------------------------------------------------------------------------
(* Signing: multisig::sign_input and multisig::verify_input are not part of *)
(* the source at hand.  They are modelled from the specification: the       *)
(* signer signs the signature hash of the transaction for one input with    *)
(* the redeem script as script-code, and a signature verifies exactly       *)
(* against the key pair and the signature hash it was made with.  The       *)
(* signature hash is an ideal digest (its preimage): the transaction with   *)
(* every unlocking script blanked and the script-code in the signed         *)
(* input's place, as signatures made before finalization must still verify  *)
(* in the finalized transaction that is broadcast.                          *)

NumKeys == 2
PrivKeys == {[secret |-> k] : k \in 1..NumKeys}
PublicKey(priv_key) == [point |-> priv_key.secret]
PubKeys == {PublicKey(k) : k \in PrivKeys}
secret_key(priv_key) == priv_key.secret

NoSignature == [held |-> FALSE]

signature_hash(raw, input, script_code) ==
    [input |-> input,
     tx |-> [raw EXCEPT !.input =
                [i \in 1..Len(raw.input) |->
                    [raw.input[i] EXCEPT !.script_sig =
                        IF i = input + 1 THEN script_code ELSE EmptyScript]]]]

sign_input(raw, input, redeem_script, secret) ==
    [der |-> TRUE, signer |-> secret,
     digest |-> signature_hash(raw, input, redeem_script)]

verify_input(raw, input, redeem_script, pub_key, sig) ==
    /\ sig.der
    /\ sig.signer = pub_key.point
    /\ sig.digest = signature_hash(raw, input, redeem_script)

\* sign_anchoring_transaction
sign_anchoring_transaction(anchoring_tx, redeem_script, vin, priv_key) ==
    sign_input(anchoring_tx.raw, vin, redeem_script, secret_key(priv_key))

\* mutant of verify_anchoring_transaction: the input index is not passed on
verify_anchoring_transaction_first_input(anchoring_tx, redeem_script, vin, pub_key, sig) ==
    verify_input(anchoring_tx.raw, 0, redeem_script, pub_key, sig)

\* verify_anchoring_transaction
verify_anchoring_transaction(anchoring_tx, redeem_script, vin, pub_key, sig) ==
    verify_input(anchoring_tx.raw, vin, redeem_script, pub_key, sig)

\* AnchoringTx::sign
sign(anchoring_tx, redeem_script, input, priv_key) ==
    sign_anchoring_transaction(anchoring_tx, redeem_script, input, priv_key)

\* AnchoringTx::verify
verify(anchoring_tx, redeem_script, input, pub_key, sig) ==
    verify_anchoring_transaction(anchoring_tx, redeem_script, input, pub_key, sig)

\* AnchoringTx::inputs
inputs(anchoring_tx) == 0..(Len(anchoring_tx.raw.input) - 1)

\* signature bytes that differ from those the signer returned: bytes that
\* are no signature encoding, and the encoding of another signature
AlteredSignatures(sig) ==
    {[sig EXCEPT !.der = FALSE], [sig EXCEPT !.signer = 0]}

\* copies of a transaction with a field outside the unlocking scripts changed
AlteredTxs(anchoring_tx) ==
    {[anchoring_tx EXCEPT !.raw.lock_time = 1],
     [anchoring_tx EXCEPT !.raw.output[1].value = U64Zero]}

----------------------------------------------------------------------------
(* Raw transactions given to the payload decoder and the classifier *)

PayloadA == PayloadData(U64(0, 0, 0, 10), HashA)

CandidateScripts ==
    { MetadataScript(U64(258, 772, 1286, 1800), HashB),            \* a payload
      push_slice(<<OP_RETURN>>, [PayloadA EXCEPT ![1] = 2]),       \* version 2
      push_slice(<<OP_RETURN>>, [PayloadA EXCEPT ![2] = 7]),       \* length byte 7
      push_slice(<<OP_RETURN>>, SubSeq(PayloadA, 1, PayloadLen - 1)),  \* 41 bytes
      push_slice(<<OP_RETURN>>, PayloadA \o <<0>>),                \* 43 bytes
      <<OP_RETURN>>,                                               \* no push
      <<OP_RETURN, PayloadLen, PayloadVersion, PayloadDataLen>>,   \* cut short
      <<OP_RETURN, OP_PUSHDATA1, PayloadLen>> \o PayloadA,         \* long-form push
      push_slice(push_slice(<<OP_RETURN>>, PayloadA), <<7>>),      \* payload first
      push_slice(push_slice(<<OP_RETURN>>, <<7>>), PayloadA),      \* payload second
      push_slice(<<OP_PUSHBYTES_0>>, PayloadA),                    \* empty push first
      script_pubkey(AddrA),
      P2pkh(Rep(2, Hash160Len)),
      EmptyScript }

CandidateOutputs ==
    {TxOut(U64Zero, sc) : sc \in CandidateScripts}
    \cup {TxOut(Sat3000, sc) : sc \in
             { MetadataScript(U64(258, 772, 1286, 1800), HashB),
               script_pubkey(AddrA), P2pkh(Rep(2, Hash160Len)) }}

RECURSIVE SeqsUpTo(_, _)
SeqsUpTo(S, n) ==
    IF n = 0 THEN {<<>>}
    ELSE LET shorter == SeqsUpTo(S, n - 1)
         IN  shorter \cup {Append(q, x) : q \in shorter, x \in S}

CandidateTxs ==
    {RawBitcoinTx(1, 0, <<TxIn(Rep(73, HashLen), 0, EmptyScript, SequenceFinal)>>, outs) :
        outs \in SeqsUpTo(CandidateOutputs, MaxOutputs)}

----------------------------------------------------------------------------------------------------------------------------------------------------
(* The state machine: one caller's session with the module *)

Init ==
    /\ debug_assertions \in BOOLEAN
    /\ builder = NoBuilder
    /\ tx = NoTx
    /\ finalized = 0
    /\ signature = NoSignature
    /\ outcome = [status |-> "none"]
    /\ sent = <<>>
    /\ last = [op |-> "none"]

Idle == ~builder.live /\ ~tx.held /\ last.op = "none"

\* TransactionBuilder::with_prev_tx
with_prev_tx(refs) ==
    /\ Idle
    /\ \E ref \in refs :
          builder' = [live |-> TRUE, inputs |-> <<ref>>, output |-> None,
                      payload |-> None, fee |-> None]
    /\ UNCHANGED <<sent, debug_assertions, tx, finalized, outcome, last, signature>>

\* TransactionBuilder::fee
fee(fees) ==
    /\ builder.live
    /\ \E f \in fees : builder' = [builder EXCEPT !.fee = Some(f)]
    /\ UNCHANGED <<sent, debug_assertions, tx, finalized, outcome, last, signature>>

\* TransactionBuilder::add_funds
add_funds(refs) ==
    /\ builder.live
    /\ Len(builder.inputs) < MaxInputs
    /\ \E ref \in refs :
          builder' = [builder EXCEPT !.inputs = Append(@, ref)]
    /\ UNCHANGED <<sent, debug_assertions, tx, finalized, outcome, last, signature>>

\* TransactionBuilder::payload
payload(heights, hashes) ==
    /\ builder.live
    /\ \E height \in heights, hash \in hashes :
          builder' = [builder EXCEPT !.payload = Some(<<height, hash>>)]
    /\ UNCHANGED <<sent, debug_assertions, tx, finalized, outcome, last, signature>>

\* TransactionBuilder::send_to
send_to(addrs) ==
    /\ builder.live
    /\ \E addr \in addrs : builder' = [builder EXCEPT !.output = Some(addr)]
    /\ UNCHANGED <<sent, debug_assertions, tx, finalized, outcome, last, signature>>

\* TransactionBuilder::into_transaction: consumes the builder
IntoTransaction ==
    /\ builder.live
    /\ LET r == into_transaction(builder, debug_assertions)
       IN  /\ outcome' = r
           /\ tx' = IF r.status = "ok" THEN r.val ELSE NoTx
    /\ builder' = NoBuilder
    /\ last' = [op |-> "into_transaction", builder |-> builder]
    /\ UNCHANGED <<sent, debug_assertions, finalized, signature>>

\* AnchoringTx::from(raw): implement_tx_from_raw! {AnchoringTx}
FromRaw(raws) ==
    /\ Idle
    /\ \E raw \in raws :
          /\ tx' = AnchoringTx(raw)
          /\ outcome' = Ok(AnchoringTx(raw))
          /\ last' = [op |-> "from", raw |-> raw]
    /\ UNCHANGED <<sent, debug_assertions, builder, finalized, signature>>

\* find_payload(raw)
FindPayload(raws) ==
    /\ Idle
    /\ \E raw \in raws :
          /\ outcome' = Ok(find_payload(raw))
          /\ last' = [op |-> "find_payload", raw |-> raw]
    /\ UNCHANGED <<sent, debug_assertions, builder, tx, finalized, signature>>

\* TxKind::from(raw): the caller keeps the AnchoringTx of an Anchoring result
Classify(raws) ==
    /\ Idle
    /\ \E raw \in raws :
          LET k == TxKindFrom(raw)
          IN  /\ outcome' = Ok(k)
              /\ tx' = IF k.kind = "Anchoring" THEN k.tx ELSE NoTx
              /\ last' = [op |-> "classify", raw |-> raw]
    /\ UNCHANGED <<sent, debug_assertions, builder, finalized, signature>>

\* TxKind::from(tx.0) of the AnchoringTx in hand
Reclassify ==
    /\ tx.held
    /\ last.op \in {"into_transaction", "finalize"}
    /\ outcome' = Ok(TxKindFrom(tx.raw))
    /\ last' = [op |-> "reclassify", before |-> last]
    /\ UNCHANGED <<sent, debug_assertions, builder, tx, finalized, signature>>

\* AnchoringTx::payload of the AnchoringTx in hand
Payload ==
    /\ tx.held
    /\ last.op \in {"into_transaction", "finalize", "from", "classify"}
    /\ outcome' = payload_of(tx)
    /\ last' = [op |-> "payload_of", before |-> last]
    /\ UNCHANGED <<sent, debug_assertions, builder, tx, finalized, signature>>

\* AnchoringTx::finalize: consumes the AnchoringTx, returns the finalized one
Finalize(redeem_scripts, maps) ==
    /\ tx.held
    /\ finalized < MaxFinalize
    /\ \E redeem_script \in redeem_scripts, signatures \in maps :
          LET r == finalize(tx, redeem_script, signatures)
          IN  /\ outcome' = r
              /\ tx' = IF r.status = "ok" THEN r.val ELSE NoTx
              /\ last' = [op |-> "finalize", before |-> tx,
                          redeem_script |-> redeem_script,
                          signatures |-> signatures]
    /\ finalized' = finalized + 1
    /\ UNCHANGED <<sent, debug_assertions, builder, signature>>

SourceSet == {SourceTxs[i] : i \in 1..Len(SourceTxs)}

\* building, decoding and classifying, over the full input sets
Next ==
    \/ with_prev_tx(InputRefs)
    \/ fee(Fees)
    \/ add_funds(InputRefs)
    \/ payload(Heights, Hashes)
    \/ send_to(Addresses)
    \/ IntoTransaction
    \/ FromRaw(CandidateTxs \cup SourceSet)
    \/ FindPayload(CandidateTxs \cup SourceSet)
    \/ Classify(CandidateTxs \cup SourceSet)
    \/ Reclassify
    \/ Payload

Spec == Init /\ [][Next]_vars

\* the inputs of the sessions that go on to finalization
FewRefs == {<<PrevAnchoringTx, 0>>, <<FundingRawTx, 0>>}

\* building and finalizing
NextFinalize ==
    \/ with_prev_tx(FewRefs)
    \/ fee({Sat1000})
    \/ add_funds(FewRefs)
    \/ payload({U64(258, 772, 1286, 1800)}, {HashB})
    \/ send_to({AddrA})
    \/ IntoTransaction
    \/ FromRaw(SourceSet)
    \/ Reclassify
    \/ Payload
    \/ Finalize(RedeemScripts, SignatureMaps)

SpecFinalize == Init /\ [][NextFinalize]_vars

\* AnchoringTx::sign of the AnchoringTx in hand; the caller keeps the signature
Sign(redeem_scripts) ==
    /\ tx.held
    /\ ~signature.held
    /\ \E redeem_script \in redeem_scripts, input \in inputs(tx), priv_key \in PrivKeys :
          LET sig == sign(tx, redeem_script, input, priv_key)
          IN  /\ signature' = [held |-> TRUE, sig |-> sig, tx |-> tx,
                               redeem_script |-> redeem_script,
                               input |-> input, priv_key |-> priv_key]
              /\ outcome' = Ok(sig)
              /\ last' = [op |-> "sign"]
    /\ UNCHANGED <<sent, debug_assertions, builder, tx, finalized>>

\* AnchoringTx::verify of the signature in hand, or of altered signature
\* bytes, with any public key, against the AnchoringTx in hand or an
\* altered copy of it
Verify ==
    /\ tx.held
    /\ signature.held
    /\ \E pub_key \in PubKeys,
          sig \in {signature.sig} \cup AlteredSignatures(signature.sig),
          target \in {tx} \cup AlteredTxs(tx) :
          /\ outcome' = Ok(verify(target, signature.redeem_script,
                                  signature.input, pub_key, sig))
          /\ last' = [op |-> "verify", tx |-> target, pub_key |-> pub_key,
                      sig |-> sig]
    /\ UNCHANGED <<sent, debug_assertions, builder, tx, finalized, signature>>

\* building, signing, finalizing and verifying
NextSign ==
    \/ with_prev_tx(FewRefs)
    \/ fee({Sat1000})
    \/ add_funds(FewRefs)
    \/ payload({U64(258, 772, 1286, 1800)}, {HashB})
    \/ send_to({AddrA})
    \/ IntoTransaction
    \/ Sign({RedeemA})
    \/ Finalize({RedeemA}, {<<>>, [k \in {0} |-> <<SigX, SigY>>]})
    \/ Verify

SpecSign == Init /\ [][NextSign]_vars

\* AnchoringTx::send: consumes the AnchoringTx; the caller gets the finalized
\* one back on acceptance and nothing on an error
Send(redeem_scripts, maps, clients) ==
    /\ tx.held
    /\ finalized < MaxFinalize
    /\ \E redeem_script \in redeem_scripts, signatures \in maps,
          client \in clients :
          LET r == send(tx, client, redeem_script, signatures)
          IN  /\ outcome' = r.result
              /\ tx' = IF r.result.status = "ok" THEN r.result.val ELSE NoTx
              /\ sent' = sent \o r.calls
              /\ last' = [op |-> "send", before |-> tx,
                          redeem_script |-> redeem_script,
                          signatures |-> signatures, client |-> client,
                          sent_before |-> sent]
    /\ finalized' = finalized + 1
    /\ UNCHANGED <<debug_assertions, builder, signature>>

\* the signature mappings of the sessions that go on to broadcast: one
\* input, the other input, both, and an input the transaction does not have
SendMaps == {m \in SignatureMaps : DOMAIN m # {}}

\* building, signing, finalizing and sending
NextSend ==
    \/ with_prev_tx(FewRefs)
    \/ fee({Sat1000})
    \/ add_funds(FewRefs)
    \/ payload({U64(258, 772, 1286, 1800)}, {HashB})
    \/ send_to({AddrA})
    \/ IntoTransaction
    \/ Sign({RedeemA})
    \/ Finalize({RedeemA}, SendMaps)
    \/ Send({RedeemA}, SendMaps, Clients)

SpecSend == Init /\ [][NextSend]_vars

----------------------------------------------------------------------------
(* Vocabulary of the properties *)

Built == last.op = "into_transaction"
BuilderUsed == last.builder

\* every reference of the builder names an output its transaction has
RefsValid(b) ==
    \A i \in 1..Len(b.inputs) : b.inputs[i][2] < Len(b.inputs[i][1].output)

RefValue(ref) == ref[1].output[ref[2] + 1].value

\* the sum of the referenced values, with whether it left the u64 range
RECURSIVE ValueSum(_)
ValueSum(refs) ==
    IF refs = <<>> THEN [val |-> U64Zero, overflow |-> FALSE]
    ELSE LET rest == ValueSum(Tail(refs))
             s == U64Add(rest.val, RefValue(Head(refs)))
         IN  [val |-> s.val, overflow |-> rest.overflow \/ s.overflow]

AllSet(b) == b.output.some /\ b.fee.some /\ b.payload.some

\* the builder consumed by the last into_transaction had every field set,
\* valid references and a total S that fits 64 bits
WellFormedBuild ==
    /\ Built
    /\ AllSet(BuilderUsed)
    /\ RefsValid(BuilderUsed)
    /\ ~ValueSum(BuilderUsed.inputs).overflow

TotalS == ValueSum(BuilderUsed.inputs).val
FeeF == BuilderUsed.fee.val

----------------------------------------------------------------------------
\* C1: when the referenced outputs exist and their values sum to S (a u64),
\* and the fee F is at most S, into_transaction yields a transaction with
\* exactly two outputs, output[0] = S - F to the destination's locking
\* script, output[1] of value 0, and one input per reference in insertion
\* order, each with the reference's txid and index, an empty unlocking
\* script and sequence 0xFFFFFFFF.
C1_BuildShape ==
    (WellFormedBuild /\ ~U64Gt(FeeF, TotalS)) =>
        /\ outcome.status = "ok"
        /\ tx = outcome.val
        /\ Len(tx.raw.output) = 2
        /\ U64Add(tx.raw.output[1].value, FeeF) = [val |-> TotalS, overflow |-> FALSE]
        /\ tx.raw.output[1].script_pubkey = script_pubkey(BuilderUsed.output.val)
        /\ tx.raw.output[2].value = U64Zero
        /\ Len(tx.raw.input) = Len(BuilderUsed.inputs)
        /\ \A i \in 1..Len(BuilderUsed.inputs) :
              /\ tx.raw.input[i].prev_hash = bitcoin_hash(BuilderUsed.inputs[i][1])
              /\ tx.raw.input[i].prev_index = BuilderUsed.inputs[i][2]
              /\ tx.raw.input[i].script_sig = <<>>
              /\ tx.raw.input[i].sequence = <<65535, 65535>>

\* a build from two different references with a positive fee below S
C1_Witness ==
    /\ WellFormedBuild
    /\ Len(BuilderUsed.inputs) = 2
    /\ BuilderUsed.inputs[1] # BuilderUsed.inputs[2]
    /\ FeeF = Sat1000
    /\ outcome.status = "ok"
    /\ tx.raw.output[1].value = U64(0, 0, 0, 6000)

FirstMissing(b) ==
    IF ~b.output.some THEN "Output address is not set"
    ELSE IF ~b.fee.some THEN "Fee is not set"
    ELSE "called Option::unwrap on a None value"

SumPanics == {"index out of bounds", "attempt to add with overflow"}

C3_FeeAboveTotalIsAnError ==
    (WellFormedBuild /\ U64Gt(FeeF, TotalS)) =>
        outcome = [status |-> "err", error |-> "PreconditionError"]

\* C4: the transaction the builder returns for payload(height, hash) decodes
\* to exactly (height, hash) and classifies as Anchoring, whatever the
\* inputs, the fee and the destination.
C4_BuiltPayloadRoundTrip ==
    /\ (Built /\ outcome.status = "ok") =>
          /\ find_payload(tx.raw) = Some(BuilderUsed.payload.val)
          /\ TxKindFrom(tx.raw).kind = "Anchoring"
    /\ (last.op = "payload_of" /\ last.before.op = "into_transaction") =>
          outcome = Ok(last.before.builder.payload.val)
    /\ (last.op = "reclassify" /\ last.before.op = "into_transaction") =>
          /\ outcome.val.kind = "Anchoring"
          /\ outcome.val.tx = tx

\* AnchoringTx::payload returned the height 0x0102030405060708 given to a builder
C4_Witness ==
    /\ last.op = "payload_of"
    /\ last.before.op = "into_transaction"
    /\ outcome.status = "ok"
    /\ outcome.val = <<U64(258, 772, 1286, 1800), HashB>>
    /\ Len(tx.raw.input) = 2

----------------------------------------------------------------------------
\* the data-push operand the decoder extracts: the first one of output 1
Out1Pushes(raw) == Pushes(Instructions(raw.output[2].script_pubkey))

DecodeSucceeds(raw) ==
    IF Len(raw.output) < 2 THEN FALSE
    ELSE IF Out1Pushes(raw) = <<>> THEN FALSE
    ELSE Len(Out1Pushes(raw)[1]) = 42 /\ Out1Pushes(raw)[1][1] = 1

\* bytes 2-9 of the operand as a little-endian u64, bytes 10-41 as the hash
HeightOf(b) ==
    <<b[3] + 256 * b[4], b[5] + 256 * b[6], b[7] + 256 * b[8], b[9] + 256 * b[10]>>
HashOf(b) == SubSeq(b, 11, 42)

\* C5: find_payload returns (height, hash) exactly when output 1 exists and
\* the data-push operand it extracts is 42 bytes long with byte 0 equal to 1
\* (height = bytes 2-9 little-endian, hash = bytes 10-41); in every other
\* case it returns no payload; it never panics.
C5_DecodeRule ==
    last.op = "find_payload" =>
        /\ outcome.status = "ok"
        /\ IF DecodeSucceeds(last.raw)
           THEN outcome.val = Some(<<HeightOf(Out1Pushes(last.raw)[1]),
                                     HashOf(Out1Pushes(last.raw)[1])>>)
           ELSE outcome.val = None

\* a payload decoded from a two-output transaction given to find_payload
C5_Witness ==
    /\ last.op = "find_payload"
    /\ Len(last.raw.output) = 2
    /\ outcome = Ok(Some(<<U64(258, 772, 1286, 1800), HashB>>))

PositiveP2sh(out) ==
    /\ out.value # U64Zero
    /\ Len(out.script_pubkey) = 23
    /\ out.script_pubkey[1] = 169
    /\ out.script_pubkey[2] = 20
    /\ out.script_pubkey[23] = 135

HasPositiveP2sh(raw) == \E i \in 1..Len(raw.output) : PositiveP2sh(raw.output[i])

\* C6: TxKind::from returns exactly one variant for every raw transaction:
\* Anchoring if payload decoding succeeds (even when an output also has a
\* positive value and a pay-to-script-hash script), otherwise Funding if some
\* output has a positive value and a pay-to-script-hash script, otherwise
\* Other; the variant wraps the transaction given.
C6_ClassifyRule ==
    last.op = "classify" =>
        /\ outcome.status = "ok"
        /\ outcome.val.tx = [held |-> TRUE, raw |-> last.raw]
        /\ outcome.val.kind =
              IF DecodeSucceeds(last.raw) THEN "Anchoring"
              ELSE IF HasPositiveP2sh(last.raw) THEN "FundingTx"
              ELSE "Other"

\* the tie-break: a transaction with a payload and a funded script-hash output
C6_Witness ==
    /\ last.op = "classify"
    /\ DecodeSucceeds(last.raw)
    /\ HasPositiveP2sh(last.raw)
    /\ outcome.val.kind = "Anchoring"

\* C7 as claimed: every AnchoringTx value obtained through the public
\* operations wraps a raw transaction whose payload decodes, so
\* AnchoringTx::payload never reaches 'Unable to find payload'.
C7_AnchoringTxHasPayload ==
    /\ tx.held => find_payload(tx.raw).some
    /\ last.op = "payload_of" => outcome.status = "ok"

----------------------------------------------------------------------------
Finalized == last.op = "finalize" /\ outcome.status = "ok"

PushOf(data) ==
    IF Len(data) < 76 THEN <<Len(data)>> \o data ELSE <<76, Len(data)>> \o data

RECURSIVE PushesOf(_)
PushesOf(list) ==
    IF list = <<>> THEN <<>> ELSE PushOf(Head(list)) \o PushesOf(Tail(list))

\* a zero placeholder, each signature in the order given, the redeem script
ExpectedScriptSig(signatures, redeem_script) ==
    <<0>> \o PushesOf(signatures) \o PushOf(redeem_script)

\* C8 as claimed: after finalize, every input whose index is in the
\* signature mapping has the placeholder, the signatures in the order given
\* and the redeem script as its unlocking script, and every other input has
\* an empty unlocking script.
C8_OthersEmpty ==
    Finalized =>
        \A i \in 1..Len(tx.raw.input) :
            tx.raw.input[i].script_sig =
                IF (i - 1) \in DOMAIN last.signatures
                THEN ExpectedScriptSig(last.signatures[i - 1], last.redeem_script)
                ELSE <<>>

\* C8 as amended: after finalize, every input whose index is in the
\* signature mapping has the placeholder, the signatures in the order given
\* and the redeem script as its unlocking script, and every other input
\* keeps the unlocking script it had before the call (empty for a
\* transaction fresh from the builder).
C8_OthersUntouched ==
    Finalized =>
        /\ tx = outcome.val
        /\ Len(tx.raw.input) = Len(last.before.raw.input)
        /\ \A i \in 1..Len(tx.raw.input) :
              tx.raw.input[i].script_sig =
                  IF (i - 1) \in DOMAIN last.signatures
                  THEN ExpectedScriptSig(last.signatures[i - 1], last.redeem_script)
                  ELSE last.before.raw.input[i].script_sig

\* a finalize that signs input 0 of a two-input transaction whose input 1
\* was signed by an earlier finalize
C8_Witness ==
    /\ Finalized
    /\ Len(tx.raw.input) = 2
    /\ DOMAIN last.signatures = {0}
    /\ last.before.raw.input[2].script_sig # <<>>
    /\ tx.raw.input[2].script_sig = last.before.raw.input[2].script_sig
    /\ tx.raw.input[1].script_sig # last.before.raw.input[1].script_sig

\* C9: finalize changes nothing but unlocking scripts: version, locktime,
\* the number and order of the inputs, each input's previous id, output
\* index and sequence, and the outputs are those of the transaction given;
\* so are the amount, the previous id, the decoded payload and the kind.
C9_FinalizeFrame ==
    /\ Finalized =>
          /\ tx.raw.version = last.before.raw.version
          /\ tx.raw.lock_time = last.before.raw.lock_time
          /\ tx.raw.witness = last.before.raw.witness
          /\ tx.raw.output = last.before.raw.output
          /\ Len(tx.raw.input) = Len(last.before.raw.input)
          /\ \A i \in 1..Len(tx.raw.input) :
                /\ tx.raw.input[i].prev_hash = last.before.raw.input[i].prev_hash
                /\ tx.raw.input[i].prev_index = last.before.raw.input[i].prev_index
                /\ tx.raw.input[i].sequence = last.before.raw.input[i].sequence
          /\ amount(tx) = amount(last.before)
          /\ prev_hash(tx) = prev_hash(last.before)
          /\ find_payload(tx.raw) = find_payload(last.before.raw)
          /\ TxKindFrom(tx.raw).kind = TxKindFrom(last.before.raw).kind
    /\ (last.op = "payload_of" /\ last.before.op = "finalize") =>
          outcome = payload_of(last.before.before)
    /\ (last.op = "reclassify" /\ last.before.op = "finalize") =>
          outcome.val.kind = TxKindFrom(last.before.before.raw).kind

\* a finalize that filled both inputs of a built transaction
C9_Witness ==
    /\ Finalized
    /\ DOMAIN last.signatures = {0, 1}
    /\ \A i \in 1..2 : last.before.raw.input[i].script_sig = <<>>
    /\ \A i \in 1..2 : tx.raw.input[i].script_sig # <<>>

----------------------------------------------------------------------------
Verified == last.op = "verify"

Unsigned(anchoring_tx) ==
    \A i \in 1..Len(anchoring_tx.raw.input) :
        anchoring_tx.raw.input[i].script_sig = <<>>

\* a transaction without its unlocking scripts
WithoutScripts(anchoring_tx) ==
    [version |-> anchoring_tx.raw.version,
     lock_time |-> anchoring_tx.raw.lock_time,
     output |-> anchoring_tx.raw.output,
     input |-> [i \in 1..Len(anchoring_tx.raw.input) |->
                   <<anchoring_tx.raw.input[i].prev_hash,
                     anchoring_tx.raw.input[i].prev_index,
                     anchoring_tx.raw.input[i].sequence>>]]

KeyAndBytesIntact ==
    /\ last.pub_key = [point |-> signature.priv_key.secret]
    /\ last.sig = signature.sig

----------------------------------------------------------------------------
(* send and the lifecycle of the unlocking scripts *)

Sent == last.op = "send"

\* the unlocking script of input i (counted from 0)
ScriptSig(anchoring_tx, i) == anchoring_tx.raw.input[i + 1].script_sig

\* raw is the transaction before with the scripts of the inputs the mapping
\* names filled in and nothing else changed
FinalizedFrom(before, redeem_script, signatures, raw) ==
    /\ WithoutScripts(AnchoringTx(raw)) = WithoutScripts(before)
    /\ \A i \in inputs(before) :
          ScriptSig(AnchoringTx(raw), i) =
              IF i \in DOMAIN signatures
              THEN ExpectedScriptSig(signatures[i], redeem_script)
              ELSE ScriptSig(before, i)

\* the mapping names an input the transaction does not have
NamesMissingInput(before, signatures) ==
    \E i \in DOMAIN signatures : i \notin inputs(before)

\* C11: a send that gets through finalization hands the finalized
\* transaction, and nothing else, to the broadcast collaborator exactly once;
\* when the collaborator accepts, send returns a transaction equal to the one
\* handed over; when it fails, send returns the collaborator's error and the
\* caller has no transaction.  A send whose finalization panics (the mapping
\* names a missing input) hands nothing over and returns nothing.
C11_SendContract ==
    Sent =>
        IF NamesMissingInput(last.before, last.signatures)
        THEN /\ outcome.status = "panic"
             /\ sent = last.sent_before
             /\ ~tx.held
        ELSE /\ Len(sent) = Len(last.sent_before) + 1
             /\ SubSeq(sent, 1, Len(last.sent_before)) = last.sent_before
             /\ FinalizedFrom(last.before, last.redeem_script,
                              last.signatures, sent[Len(sent)])
             /\ last.client.accepts =>
                    /\ outcome.status = "ok"
                    /\ outcome.val.raw = sent[Len(sent)]
                    /\ tx = outcome.val
             /\ ~last.client.accepts =>
                    /\ outcome = Err(last.client.error)
                    /\ ~tx.held

\* an accepted send of a two-input transaction from the builder with
\* signatures for both inputs
C11_Witness ==
    /\ Sent
    /\ last.client.accepts
    /\ outcome.status = "ok"
    /\ Unsigned(last.before)
    /\ DOMAIN last.signatures = {0, 1}
    /\ ~Unsigned(tx)

FinalizeOrSend(l) == l.op \in {"finalize", "send"}

\* C12 as claimed: the builder's transaction is unsigned, signing leaves it
\* unchanged, and once a finalize has filled unlocking scripts no later
\* operation (finalize or send, whatever its mapping) changes any unlocking
\* script of the transaction.
C12_WrittenOnce ==
    [][/\ (last'.op = "into_transaction" /\ tx'.held) => Unsigned(tx')
       /\ last'.op = "sign" => tx' = tx
       /\ (tx.held /\ tx'.held /\ finalized >= 1 /\ ~Unsigned(tx)) =>
              \A i \in inputs(tx) : ScriptSig(tx', i) = ScriptSig(tx, i)]_vars

\* C12: the builder's transaction is unsigned and signing leaves it
\* unchanged; every finalize, alone or inside send, writes the unlocking
\* scripts of exactly the inputs its mapping names, on every call, and keeps
\* the rest of the transaction; repeating the call with the same redeem
\* script and mapping changes nothing; an unlocking script once filled is
\* never emptied again, and the transactions handed to the broadcast
\* collaborator are never taken back.
C12_FilledNeverEmptied ==
    [][/\ (last'.op = "into_transaction" /\ tx'.held) => Unsigned(tx')
       /\ last'.op = "sign" => tx' = tx
       /\ (tx.held /\ tx'.held /\ FinalizeOrSend(last') /\ last' # last) =>
              /\ FinalizedFrom(tx, last'.redeem_script, last'.signatures,
                               tx'.raw)
              /\ \A i \in inputs(tx) :
                    ScriptSig(tx, i) # <<>> => ScriptSig(tx', i) # <<>>
              /\ (/\ FinalizeOrSend(last)
                  /\ last.redeem_script = last'.redeem_script
                  /\ last.signatures = last'.signatures) => tx'.raw = tx.raw
       /\ Len(sent') >= Len(sent)
       /\ SubSeq(sent', 1, Len(sent)) = sent]_vars

\* a second finalize or send that replaced a filled unlocking script
C12_Witness ==
    /\ FinalizeOrSend(last)
    /\ finalized = 2
    /\ tx.held
    /\ \E i \in inputs(tx) :
          /\ ScriptSig(last.before, i) # <<>>
          /\ ScriptSig(tx, i) # ScriptSig(last.before, i)

====
